---- MODULE Spec2Model ----
(***************************************************************************)
(* Model of the swipe gesture helpers of src/ui/utils.ts: throttle,        *)
(* onSwipeStart and createSwipeHandler, together with the parts of the     *)
(* host they use: the window listener registry, event dispatch and         *)
(* requestAnimationFrame.                                                  *)
(***************************************************************************)
EXTENDS Integers, Sequences, FiniteSets

\* ------------------------------------------------------------- bounds
MaxSessions == 1       \* start events (closures of onSwipeStart) of Spec
MaxMouseSessions == 2  \* start events of SpecMouse
MaxCalls == 3          \* handler invocations after which only up events are delivered
MaxMouseCalls == 4     \* the same, of SpecMouse: two sessions, a move to each

\* ------------------------------------------------------------- values
Null == 0         \* null of `let frameId: number = null`; null and 0 are both falsy
Undef == 0 - 1    \* undefined (a property an object does not have)

Xs == {10, 15}                    \* clientX of the events of Spec
DownXs == {10}                    \* clientX of the events of SpecMouse: mousedown,
MoveXs == {15, 20, 25}            \*   mousemove
UpXs == {30}                      \*   and mouseup
Ys == {20}                        \* clientY
TouchIds == {1, 2}                \* Touch.identifier

Undefined == [identifier |-> Undef, clientX |-> Undef, clientY |-> Undef]

Touch(id, x, y) == [identifier |-> id, clientX |-> x, clientY |-> y]

\* changedTouches of a touch event: one or two touch points, identifiers and
\* coordinates distinct
TouchLists(X) ==
    {<<Touch(i, x, y)>> : i \in TouchIds, x \in X, y \in Ys}
    \cup {<<Touch(p[1], q[1], y), Touch(p[2], q[2], y)>> :
             p \in {r \in TouchIds \X TouchIds : r[1] # r[2]},
             q \in {r \in X \X X : r[1] < r[2]}, y \in Ys}

MouseEvent(type, x, y) ==
    [type |-> type, isTouch |-> FALSE, clientX |-> x, clientY |-> y,
     changedTouches |-> <<>>]

\* a TouchEvent has no clientX/clientY of its own
TouchEvent(type, touches) ==
    [type |-> type, isTouch |-> TRUE, clientX |-> Undef, clientY |-> Undef,
     changedTouches |-> touches]

NoEvent == MouseEvent("none", Undef, Undef)

MouseEvents(type, X) == {MouseEvent(type, x, y) : x \in X, y \in Ys}

TouchEvents(type, X) == {TouchEvent(type, ts) : ts \in TouchLists(X)}

\* an event no listener was invoked for: nobody read its coordinates, and of
\* its touch points only the identifiers of a touchend are kept
Unheard(e) ==
    [e EXCEPT !.clientX = Undef, !.clientY = Undef,
              !.changedTouches =
                  IF e.type = "touchend"
                  THEN [i \in DOMAIN @ |-> Touch(@[i].identifier, Undef, Undef)]
                  ELSE <<>>]

VARIABLES
    registry,    \* window's event listener list, in order of addEventListener
    sess,        \* the closures of onSwipeStart: isTouchEvent, touchId, frameId,
                 \*   and whether preventDefault was called and startHandler returned
    rafQueue,    \* pending requestAnimationFrame callbacks
    nextHandle,  \* the handle the next requestAnimationFrame call returns
    frame,       \* number of rendering-frame boundaries that ran a callback
    log,         \* invocations of the caller's handlers (onStart, move, up)
    last         \* the last host step: its event, the listeners invoked, the
                 \*   exceptions raised and the handler invocations it made

vars == <<registry, sess, rafQueue, nextHandle, frame, log, last>>

Sids == 1..Len(sess)

\* ------------------------------------------------------------- registry
Listener(type, sid, fn) == [type |-> type, sid |-> sid, fn |-> fn]

Listening(reg, l) == \E i \in DOMAIN reg : reg[i] = l

\* a listener already in the list (same type and callback) is not added twice
addEventListener(reg, l) == IF Listening(reg, l) THEN reg ELSE Append(reg, l)

removeEventListener(reg, l) == SelectSeq(reg, LAMBDA k : k # l)

\* the callbacks of session sid that are on the list
SubsOf(reg, sid) == {reg[i].fn : i \in {j \in DOMAIN reg : reg[j].sid = sid}}

\* ------------------------------------------------------------- onSwipeStart
pointerMoveEvent(s) == IF s.isTouchEvent THEN "touchmove" ELSE "mousemove"

\* the up event name of the mouse class whatever the class of the session
pointerUpEvent_Mouse(s) == "mouseup"

pointerUpEvent(s) == IF s.isTouchEvent THEN "touchend" ELSE "mouseup"

\* getTouch taking the first changed touch point whatever its identifier
getTouch_First(s, e) == e.changedTouches[1]

\* Array.from(e.changedTouches).find(({identifier: id}) => id === touchId)
getTouch(s, e) ==
    LET hits == {i \in DOMAIN e.changedTouches :
                    e.changedTouches[i].identifier = s.touchId}
    IN  IF hits = {} THEN Undefined
        ELSE e.changedTouches[CHOOSE i \in hits : \A j \in hits : i <= j]

\* const {clientX, clientY} = isTouchEvent ? getTouch(e) : e: destructuring
\* undefined raises a TypeError
getSwipeEventObject(s, e) ==
    LET src == IF s.isTouchEvent THEN getTouch(s, e)
               ELSE [identifier |-> Undef, clientX |-> e.clientX, clientY |-> e.clientY]
    IN  IF s.isTouchEvent /\ src = Undefined
        THEN [threw |-> TRUE, clientX |-> Undef, clientY |-> Undef]
        ELSE [threw |-> FALSE, clientX |-> src.clientX, clientY |-> src.clientY]

\* one invocation of a handler the caller supplied, as the caller sees it
Call(st, sid, kind, se) ==
    [sid |-> sid, kind |-> kind, clientX |-> se.clientX, clientY |-> se.clientY,
     frame |-> frame, subs |-> SubsOf(st.registry, sid)]

\* an exception leaves fn of session sid (exc: it is propagating)
Threw(st, sid, fn) == [st EXCEPT !.threw = @ \cup {<<sid, fn>>}, !.exc = TRUE]

Heard(st, sid, fn) == [st EXCEPT !.heard = @ \cup {<<sid, fn>>}]

\* moveHandler(se, e)
moveHandler(st, sid, se) == [st EXCEPT !.log = Append(@, Call(st, sid, "move", se))]

\* the callback onSwipeStart hands to throttle
moveCallback(st, sid, e) ==
    LET se == getSwipeEventObject(st.sess[sid], e)
    IN  IF se.threw THEN Threw(st, sid, "onPointerMove")
        ELSE moveHandler(st, sid, se)

\* throttle that never requests the frame: frameId stays null
throttle_NoArm(st, sid, e) ==
    IF st.sess[sid].frameId = Null THEN moveCallback(st, sid, e) ELSE st

\* throttle keeping one token for all sessions (that of the first) instead of
\* one per call of throttle
throttle_SharedToken(st, sid, e) ==
    IF st.sess[1].frameId = Null
    THEN LET st1 == moveCallback(st, sid, e)
         IN  IF st1.exc THEN st1
             ELSE [st1 EXCEPT !.sess[1].frameId = st1.nextHandle,
                              !.rafQueue = Append(@, 1),
                              !.nextHandle = @ + 1]
    ELSE st

\* throttle requesting the frame before it runs the callback
throttle_ArmFirst(st, sid, e) ==
    IF st.sess[sid].frameId = Null
    THEN moveCallback([st EXCEPT !.sess[sid].frameId = st.nextHandle,
                                 !.rafQueue = Append(@, sid),
                                 !.nextHandle = @ + 1], sid, e)
    ELSE st

\* the wrapper throttle returns: the callback runs when no frame is pending,
\* and only when it returned is the next frame requested
throttle(st, sid, e) ==
    IF st.sess[sid].frameId = Null
    THEN LET st1 == moveCallback(st, sid, e)
         IN  IF st1.exc THEN st1
             ELSE [st1 EXCEPT !.sess[sid].frameId = st1.nextHandle,
                              !.rafQueue = Append(@, sid),
                              !.nextHandle = @ + 1]
    ELSE st

\* a move listener that takes itself off the list once it was called
onPointerMove_Once(st, sid, e) ==
    [throttle(st, sid, e) EXCEPT !.registry =
        removeEventListener(@, Listener(pointerMoveEvent(st.sess[sid]), sid, "onPointerMove"))]

onPointerMove(st, sid, e) == throttle(st, sid, e)

\* unsubscribe that leaves the move listener on the list
unsubscribe_KeepMove(st, sid) ==
    [st EXCEPT !.registry =
        removeEventListener(@, Listener(pointerUpEvent(st.sess[sid]), sid, "onPointerUp"))]

\* unsubscribe that adds the two listeners back when it finds them removed
unsubscribe_Toggle(st, sid) ==
    LET s == st.sess[sid]
        mv == Listener(pointerMoveEvent(s), sid, "onPointerMove")
        up == Listener(pointerUpEvent(s), sid, "onPointerUp")
    IN  [st EXCEPT !.registry =
            IF Listening(@, mv) \/ Listening(@, up)
            THEN removeEventListener(removeEventListener(@, mv), up)
            ELSE Append(Append(@, mv), up)]

unsubscribe(st, sid) ==
    LET s == st.sess[sid]
    IN  [st EXCEPT !.registry =
            removeEventListener(
                removeEventListener(@, Listener(pointerMoveEvent(s), sid, "onPointerMove")),
                Listener(pointerUpEvent(s), sid, "onPointerUp"))]

\* the event an up handler dispatches from inside itself: the data of the
\* native event it was given, as a move or an up event of the same device
Redispatch(e, re) ==
    [e EXCEPT !.type = IF e.isTouch
                       THEN (IF re = "move" THEN "touchmove" ELSE "touchend")
                       ELSE (IF re = "move" THEN "mousemove" ELSE "mouseup")]

RECURSIVE RunListeners(_, _, _, _)

\* window.dispatchEvent: the listeners of the type, as listed when dispatch starts
Dispatch(st, e, re) ==
    RunListeners(st, SelectSeq(st.registry, LAMBDA l : l.type = e.type), e, re)

\* upHandler(se, e); re is what the caller's handler does besides recording the
\* sample: nothing, or dispatch a move or an up event synchronously
upHandler(st, sid, se, e, re) ==
    LET st1 == [st EXCEPT !.log = Append(@, Call(st, sid, "up", se))]
    IN  IF re = "none" THEN st1
        ELSE Dispatch([st1 EXCEPT !.re = re], Redispatch(e, re), "none")

\* onPointerUp calling upHandler before unsubscribe
onPointerUp_HandlerFirst(st, sid, e, re) ==
    LET se == getSwipeEventObject(st.sess[sid], e)
    IN  IF se.threw THEN Threw(st, sid, "onPointerUp")
        ELSE unsubscribe(upHandler(st, sid, se, e, re), sid)

onPointerUp(st, sid, e, re) ==
    LET st1 == unsubscribe(st, sid)
        se == getSwipeEventObject(st1.sess[sid], e)
    IN  IF se.threw THEN Threw(st1, sid, "onPointerUp")
        ELSE upHandler(st1, sid, se, e, re)

\* a listener removed while the dispatch runs is not invoked; an exception a
\* listener raises is reported by the host and the dispatch goes on
RunListeners(st, ls, e, re) ==
    IF ls = <<>> THEN st
    ELSE LET l == Head(ls)
             st1 == IF ~Listening(st.registry, l) THEN st
                    ELSE IF l.fn = "onPointerMove"
                         THEN onPointerMove(Heard(st, l.sid, l.fn), l.sid, e)
                         ELSE onPointerUp(Heard(st, l.sid, l.fn), l.sid, e, re)
         IN  RunListeners([st1 EXCEPT !.exc = FALSE], Tail(ls), e, re)

\* startHandler(startSE, startEventObj); ok: it returns its handler pair
startHandler(st, sid, se) == [st EXCEPT !.log = Append(@, Call(st, sid, "start", se))]

\* onSwipeStart adding its listeners before it calls startHandler
onSwipeStart_SubscribeFirst(st, e, ok) ==
    LET sid == Len(st.sess) + 1
        s == [isTouchEvent |-> e.isTouch,
              touchId |-> IF e.isTouch THEN e.changedTouches[1].identifier ELSE Null,
              frameId |-> Null,
              prevented |-> IF e.isTouch THEN 0 ELSE 1,
              returned |-> ok]
        st0 == [st EXCEPT !.sess = Append(@, s),
                          !.registry =
                 addEventListener(
                     addEventListener(@, Listener(pointerMoveEvent(s), sid, "onPointerMove")),
                     Listener(pointerUpEvent(s), sid, "onPointerUp"))]
        st1 == startHandler(st0, sid, getSwipeEventObject(s, e))
    IN  IF ~ok THEN Threw(st1, sid, "startHandler") ELSE st1

\* onSwipeStart calling preventDefault whatever the class of the start event
onSwipeStart_AlwaysPrevent(st, e, ok) ==
    LET sid == Len(st.sess) + 1
        s == [isTouchEvent |-> e.isTouch,
              touchId |-> IF e.isTouch THEN e.changedTouches[1].identifier ELSE Null,
              frameId |-> Null,
              prevented |-> 1,
              returned |-> ok]
        st0 == [st EXCEPT !.sess = Append(@, s)]
        st1 == startHandler(st0, sid, getSwipeEventObject(s, e))
    IN  IF ~ok THEN Threw(st1, sid, "startHandler")
        ELSE [st1 EXCEPT !.registry =
                 addEventListener(
                     addEventListener(@, Listener(pointerMoveEvent(s), sid, "onPointerMove")),
                     Listener(pointerUpEvent(s), sid, "onPointerUp"))]

\* onSwipeStart subscribing its two listeners under the event names of both
\* device classes
onSwipeStart_BothDevices(st, e, ok) ==
    LET sid == Len(st.sess) + 1
        s == [isTouchEvent |-> e.isTouch,
              touchId |-> IF e.isTouch THEN e.changedTouches[1].identifier ELSE Null,
              frameId |-> Null,
              prevented |-> IF e.isTouch THEN 0 ELSE 1,
              returned |-> ok]
        st0 == [st EXCEPT !.sess = Append(@, s)]
        st1 == startHandler(st0, sid, getSwipeEventObject(s, e))
    IN  IF ~ok THEN Threw(st1, sid, "startHandler")
        ELSE [st1 EXCEPT !.registry =
                 addEventListener(
                     addEventListener(
                         addEventListener(
                             addEventListener(@, Listener("mousemove", sid, "onPointerMove")),
                             Listener("mouseup", sid, "onPointerUp")),
                         Listener("touchmove", sid, "onPointerMove")),
                     Listener("touchend", sid, "onPointerUp"))]

onSwipeStart(st, e, ok) ==
    LET sid == Len(st.sess) + 1
        s == [isTouchEvent |-> e.isTouch,
              touchId |-> IF e.isTouch THEN e.changedTouches[1].identifier ELSE Null,
              frameId |-> Null,
              prevented |-> IF e.isTouch THEN 0 ELSE 1,
              returned |-> ok]
        st0 == [st EXCEPT !.sess = Append(@, s)]
        startSE == getSwipeEventObject(s, e)
        st1 == startHandler(st0, sid, startSE)
    IN  IF ~ok THEN Threw(st1, sid, "startHandler")
        ELSE [st1 EXCEPT !.registry =
                 addEventListener(
                     addEventListener(@, Listener(pointerMoveEvent(s), sid, "onPointerMove")),
                     Listener(pointerUpEvent(s), sid, "onPointerUp"))]

\* ------------------------------------------------------------- host steps
Here == [registry |-> registry, sess |-> sess, rafQueue |-> rafQueue,
         nextHandle |-> nextHandle, log |-> log, heard |-> {}, threw |-> {},
         exc |-> FALSE, re |-> "none"]

Becomes(st, e) ==
    /\ registry' = st.registry
    /\ sess' = st.sess
    /\ rafQueue' = st.rafQueue
    /\ nextHandle' = st.nextHandle
    /\ log' = st.log
    /\ last' = [e |-> IF st.heard = {} /\ st.log = log THEN Unheard(e) ELSE e,
                heard |-> st.heard, threw |-> st.threw, re |-> st.re,
                calls |-> SubSeq(st.log, Len(log) + 1, Len(st.log))]
    /\ frame' = frame

\* createSwipeHandler(startHandler) attached as the element's start listener
Start(e, n, c) ==
    /\ Len(sess) < n
    /\ Len(log) < c
    /\ \E ok \in BOOLEAN : LET st == onSwipeStart(Here, e, ok) IN Becomes(st, e)

Deliver(e, re) == LET st == Dispatch(Here, e, re) IN Becomes(st, e)

\* a move event the bound still allows: one that is dropped always is
DeliverMove(e, c) == Deliver(e, "none") /\ Len(log') <= c

MouseDown(X, n, c) == \E e \in MouseEvents("mousedown", X) : Start(e, n, c)

Listened(type) == \E i \in DOMAIN registry : registry[i].type = type

\* the events of E (all of one type) as far as anyone reads them: with no
\* listener of the type on the list, nobody reads their coordinates
Inputs(type, E) == IF Listened(type) THEN E ELSE {Unheard(e) : e \in E}

\* what the caller's up handler does besides recording its sample
Reactions(type) == IF Listened(type) THEN {"none", "move", "up"} ELSE {"none"}

MouseMove(X, c) ==
    \E e \in Inputs("mousemove", MouseEvents("mousemove", X)) : DeliverMove(e, c)

MouseUp(X) ==
    \E e \in Inputs("mouseup", MouseEvents("mouseup", X)), re \in Reactions("mouseup") :
        Deliver(e, re)

TouchStart(X, n, c) == \E e \in TouchEvents("touchstart", X) : Start(e, n, c)

TouchMove(X, c) ==
    \E e \in Inputs("touchmove", TouchEvents("touchmove", X)) : DeliverMove(e, c)

TouchEnd(X) ==
    \E e \in Inputs("touchend", TouchEvents("touchend", X)), re \in Reactions("touchend") :
        Deliver(e, re)

\* frame callbacks that leave frameId as it is
RunFrameCallbacks_KeepToken(ss, q) == ss

RECURSIVE RunFrameCallbacks(_, _)
\* the callbacks requestAnimationFrame queued: () => (frameId = null)
RunFrameCallbacks(ss, q) ==
    IF q = <<>> THEN ss
    ELSE RunFrameCallbacks([ss EXCEPT ![Head(q)].frameId = Null], Tail(q))

\* a frame boundary with no callback queued changes nothing the program reads
FrameBoundary ==
    /\ rafQueue # <<>>
    /\ frame' = frame + 1
    /\ sess' = RunFrameCallbacks(sess, rafQueue)
    /\ rafQueue' = <<>>
    /\ last' = [e |-> MouseEvent("frame", Undef, Undef), heard |-> {}, threw |-> {},
                re |-> "none", calls |-> <<>>]
    /\ UNCHANGED <<registry, nextHandle, log>>

Init ==
    /\ registry = <<>>
    /\ sess = <<>>
    /\ rafQueue = <<>>
    /\ nextHandle = 1
    /\ frame = 0
    /\ log = <<>>
    /\ last = [e |-> NoEvent, heard |-> {}, threw |-> {}, re |-> "none", calls |-> <<>>]

Next ==
    \/ MouseDown(Xs, MaxSessions, MaxCalls)
    \/ MouseMove(Xs, MaxCalls)
    \/ MouseUp(Xs)
    \/ TouchStart(Xs, MaxSessions, MaxCalls)
    \/ TouchMove(Xs, MaxCalls)
    \/ TouchEnd(Xs)
    \/ FrameBoundary

Spec == Init /\ [][Next]_vars

\* the host renders: a requested animation frame callback is eventually run
SpecFair == Init /\ [][Next]_vars /\ WF_vars(FrameBoundary)

NextMouse ==
    \/ MouseDown(DownXs, MaxMouseSessions, MaxMouseCalls)
    \/ MouseMove(MoveXs, MaxMouseCalls)
    \/ MouseUp(UpXs)
    \/ FrameBoundary

SpecMouse == Init /\ [][NextMouse]_vars

\* ------------------------------------------------------------- properties
CallsOf(l, sid) == SelectSeq(l, LAMBDA c : c.sid = sid)

KindOf(l, sid, kind) == SelectSeq(l, LAMBDA c : c.sid = sid /\ c.kind = kind)

\* the log as it was before the last host step
Before == SubSeq(log, 1, Len(log) - Len(last.calls))

HasId(e, id) == \E i \in DOMAIN e.changedTouches : e.changedTouches[i].identifier = id

\* e is a touch-move or touch-end that carries no touch point of touch session s
Stranger(s, e) ==
    /\ s.isTouchEvent
    /\ e.type \in {"touchmove", "touchend"}
    /\ e.isTouch
    /\ e.changedTouches # <<>>
    /\ ~HasId(e, s.touchId)

\* e carries a sample for session s
Qualifies(s, e) == IF s.isTouchEvent THEN e.isTouch /\ HasId(e, s.touchId) ELSE ~e.isTouch

\* the sample of session s in e, for an e that qualifies
SampleOf(s, e) ==
    IF s.isTouchEvent
    THEN LET t == CHOOSE t \in {e.changedTouches[i] : i \in DOMAIN e.changedTouches} :
                      t.identifier = s.touchId
         IN  <<t.clientX, t.clientY>>
    ELSE <<e.clientX, e.clientY>>

Both == {"onPointerMove", "onPointerUp"}

\* C1: a touch-end that does not carry the session's touch id leaves the
\* session open: after it, the move and the up listener of the session that
\* heard it are both still subscribed.
C1_StrangerEndKeepsSession ==
    \A sid \in Sids :
        (<<sid, "onPointerUp">> \in last.heard /\ Stranger(sess[sid], last.e))
            => SubsOf(registry, sid) = Both

\* C2: a touch-move or touch-end with no touch point of the session's id is
\* ignored without a fault: the listener that heard it raises no exception,
\* no handler of the caller is invoked, and the subscriptions and the
\* throttle token of the session are as before.
C2_StrangerIgnoredWithoutFault ==
    [][\A sid \in Sids :
          ((\E fn \in Both : <<sid, fn>> \in last'.heard) /\ Stranger(sess[sid], last'.e))
              => /\ \A fn \in Both : <<sid, fn>> \notin last'.threw
                 /\ CallsOf(log', sid) = CallsOf(log, sid)
                 /\ SubsOf(registry', sid) = SubsOf(registry, sid)
                 /\ sess'[sid].frameId = sess[sid].frameId]_vars

\* C3: a touch-move or touch-end that carries only touch ids other than the
\* session's never invokes the move or the up handler of that session.
C3_StrangerNeverInvokesHandlers ==
    \A sid \in Sids :
        Stranger(sess[sid], last.e) => CallsOf(last.calls, sid) = <<>>

\* C3's case: a listener of a touch session was invoked with an event that
\* carries only another touch id
C3_Witness ==
    \E sid \in Sids :
        /\ Stranger(sess[sid], last.e)
        /\ \E fn \in Both : <<sid, fn>> \in last.heard

\* the move handler invocations of session sid made in frame f
MovesIn(l, sid, f) == SelectSeq(l, LAMBDA c : c.sid = sid /\ c.kind = "move" /\ c.frame = f)

Sample(c) == <<c.clientX, c.clientY>>

\* the throttled callback of session sid was run in the host step l describes:
\* it raised an exception or it reached the move handler
Ran(l, sid) ==
    <<sid, "onPointerMove">> \in l.threw \/ KindOf(l.calls, sid, "move") # <<>>

\* C4: the throttled callback runs at most once between two frame boundaries:
\* of two invocations of the wrapper with no frame boundary between them, the
\* second does not run the callback when the first has run it.
C4_CallbackOncePerFrame ==
    [][\A sid \in Sids :
          (Ran(last, sid) /\ frame' = frame) => ~Ran(last', sid)]_vars

\* C5: the throttle is leading-edge only: the call that reaches the move
\* handler is the first call of the wrapper in its frame, so it does not
\* follow another call of the wrapper with no frame boundary between them.
C5_LeadingEdgeOnly ==
    [][\A sid \in Sids :
          (KindOf(last'.calls, sid, "move") # <<>> /\ frame' = frame)
              => <<sid, "onPointerMove">> \notin last.heard]_vars

\* C6: once the up handler of a session was invoked, no handler of that
\* session is invoked again.
C6_NothingAfterUp ==
    \A i \in DOMAIN log : \A j \in DOMAIN log :
        (i < j /\ log[i].kind = "up") => log[j].sid # log[i].sid

\* C6's case: a move event of the session's device delivered after the up
\* handler of the session was invoked
C6_Witness ==
    \E sid \in Sids :
        /\ KindOf(Before, sid, "up") # <<>>
        /\ last.e.type = pointerMoveEvent(sess[sid])

\* C7: when the up handler is invoked, neither listener of its session is on
\* the window's list any more, and an event the up handler dispatches from
\* inside itself reaches no handler of its session.
C7_UpAfterTeardown ==
    /\ \A i \in DOMAIN log : log[i].kind = "up" => log[i].subs = {}
    /\ \A sid \in Sids :
          (last.re # "none" /\ KindOf(last.calls, sid, "up") # <<>>)
              => LET mine == CallsOf(last.calls, sid)
                 IN  /\ mine[Len(mine)].kind = "up"
                     /\ Len(KindOf(last.calls, sid, "up")) = 1

\* C7's case: an up handler that dispatched an event from inside itself
C7_Witness ==
    /\ last.re # "none"
    /\ \E i \in DOMAIN last.calls : last.calls[i].kind = "up"

\* C8: the first up event that carries a sample of a session (whose onStart
\* returned) invokes the up handler of the session exactly once, with that
\* sample, whatever the throttle token; a session's up handler is invoked at
\* most once in all.
C8_UpExactlyOnce ==
    \A sid \in Sids :
        /\ ( /\ sess[sid].returned
             /\ last.e.type = pointerUpEvent(sess[sid])
             /\ Qualifies(sess[sid], last.e)
             /\ KindOf(Before, sid, "up") = <<>> )
              => LET now == KindOf(last.calls, sid, "up")
                 IN  Len(now) = 1 /\ Sample(now[1]) = SampleOf(sess[sid], last.e)
        /\ Len(KindOf(log, sid, "up")) <= 1

\* C9: every start event invokes onStart exactly once, before any listener of
\* the session is subscribed and before any move or up invocation; a session
\* whose onStart did not return has no listener and no further invocation.
C9_StartFirst ==
    /\ Len(SelectSeq(log, LAMBDA c : c.kind = "start")) = Len(sess)
    /\ \A sid \in Sids :
          LET mine == CallsOf(log, sid)
          IN  /\ Len(KindOf(log, sid, "start")) = 1
              /\ mine[1].kind = "start"
              /\ mine[1].subs = {}
              /\ ~sess[sid].returned => (SubsOf(registry, sid) = {} /\ Len(mine) = 1)

\* C9's case: a session whose onStart returned and whose move or up handler
\* was invoked afterwards
C9_Witness ==
    \E sid \in Sids : sess[sid].returned /\ Len(CallsOf(log, sid)) >= 2

\* C10: a mouse session delivers onStart first, then at most one move per
\* frame in the order of the frames, then up last; every delivery carries the
\* coordinates of the event that caused it, and the move delivered in a frame
\* is the first move event of that frame.
C10_MouseSampleSequence ==
    /\ \A sid \in Sids :
          LET mine == CallsOf(log, sid)
          IN  /\ mine[1].kind = "start"
              /\ \A i \in 2..Len(mine) :
                    /\ mine[i].kind \in {"move", "up"}
                    /\ mine[i].kind = "up" => i = Len(mine)
                    /\ (i > 2 /\ mine[i].kind = "move") => mine[i - 1].frame < mine[i].frame
              /\ <<sid, "onPointerMove">> \in last.heard =>
                    (MovesIn(Before, sid, frame) = <<>> <=> KindOf(last.calls, sid, "move") # <<>>)
    /\ \A i \in DOMAIN last.calls : Sample(last.calls[i]) = <<last.e.clientX, last.e.clientY>>

Shown(c) == <<c.kind, c.clientX, c.clientY>>

\* C10's case: start (10,20), moves (15,20) and (25,20), release (30,20)
C10_Witness ==
    \E sid \in Sids :
        LET mine == CallsOf(log, sid)
        IN  /\ Len(mine) = 4
            /\ Shown(mine[1]) = <<"start", 10, 20>>
            /\ Shown(mine[2]) = <<"move", 15, 20>>
            /\ Shown(mine[3]) = <<"move", 25, 20>>
            /\ Shown(mine[4]) = <<"up", 30, 20>>

\* C11: the start handler calls preventDefault on the start event exactly once
\* when the session is a mouse session and never when it is a touch session: a
\* mousedown is suppressed once, a touchstart never.
C11_PreventDefaultIffMouse ==
    /\ \A sid \in Sids :
          sess[sid].prevented = (IF sess[sid].isTouchEvent THEN 0 ELSE 1)
    /\ last.e.type = "mousedown" =>
          (~sess[Len(sess)].isTouchEvent /\ sess[Len(sess)].prevented = 1)
    /\ last.e.type = "touchstart" =>
          (sess[Len(sess)].isTouchEvent /\ sess[Len(sess)].prevented = 0)

\* C11's case: a mousedown has just started a mouse session
C11_Witness ==
    /\ last.e.type = "mousedown"
    /\ \E sid \in Sids : ~sess[sid].isTouchEvent /\ sess[sid].prevented = 1

\* the entries of the window's list that subscribe callback fn of session sid
Subscriptions(reg, sid, fn) == SelectSeq(reg, LAMBDA l : l.sid = sid /\ l.fn = fn)

\* C12: in every reachable state the window's listener list holds at most one
\* move subscription and at most one up subscription of each session.
C12_OneSubscriptionEach ==
    \A sid \in Sids :
        /\ Len(Subscriptions(registry, sid, "onPointerMove")) <= 1
        /\ Len(Subscriptions(registry, sid, "onPointerUp")) <= 1

\* C12's case: a session with both listeners subscribed that has heard a move
\* event in a frame after its first
C12_Witness ==
    \E sid \in Sids :
        /\ Len(Subscriptions(registry, sid, "onPointerMove")) = 1
        /\ Len(Subscriptions(registry, sid, "onPointerUp")) = 1
        /\ <<sid, "onPointerMove">> \in last.heard
        /\ frame >= 1

\* C13: teardown is idempotent: in every state, running unsubscribe of a
\* session again after it has run raises nothing and leaves the window's list
\* as the first run left it, with no listener of the session on it; on the up
\* path both listeners of the session go from subscribed to removed in the
\* one step, and a listener once removed is never subscribed again.
C13_TeardownIdempotent ==
    [][\A sid \in 1..Len(sess') :
          LET now == [Here EXCEPT !.registry = registry', !.sess = sess']
              once == unsubscribe(now, sid)
              twice == unsubscribe(once, sid)
          IN  /\ twice = once
              /\ ~once.exc /\ once.threw = {}
              /\ SubsOf(once.registry, sid) = {}
              /\ <<sid, "onPointerUp">> \in last'.heard =>
                    /\ SubsOf(registry, sid) = Both
                    /\ SubsOf(registry', sid) = {}
                    /\ once.registry = registry'
              /\ sid \in Sids => SubsOf(registry', sid) \subseteq SubsOf(registry, sid)]_vars

\* C13's case: the up listener of a session has run its teardown, and running
\* the teardown again changes nothing
C13_Witness ==
    \E sid \in Sids :
        /\ sess[sid].returned
        /\ <<sid, "onPointerUp">> \in last.heard
        /\ SubsOf(registry, sid) = {}
        /\ unsubscribe(Here, sid).registry = registry

\* the throttle token of session sid is armed: a frame is requested and the
\* wrapper drops its calls
Armed(sid) == sid \in Sids /\ sess[sid].frameId # Null

\* C14: when frame boundaries keep coming, an armed throttle token is always
\* eventually disarmed; the frame boundary that follows the arming disarms it,
\* and the next call of the wrapper after that runs the callback at once.
C14_TokenDisarmedNextFrame ==
    /\ \A sid \in 1..MaxSessions : Armed(sid) ~> ~Armed(sid)
    /\ [][/\ frame' # frame => \A sid \in Sids : sess'[sid].frameId = Null
          /\ \A sid \in Sids :
                (sess[sid].frameId = Null /\ <<sid, "onPointerMove">> \in last'.heard)
                    => Ran(last', sid)]_vars

\* C14's case: a token armed and disarmed twice, the callback run again after
\* the first disarming
C14_Witness ==
    \E sid \in Sids :
        /\ frame >= 2
        /\ Len(KindOf(log, sid, "move")) >= 2
        /\ sess[sid].frameId = Null
        /\ last.e.type = "frame"

MoveOrFrame == {"mousemove", "touchmove", "frame"}

NameFor(isTouch, fn) ==
    IF isTouch THEN (IF fn = "onPointerMove" THEN "touchmove" ELSE "touchend")
    ELSE (IF fn = "onPointerMove" THEN "mousemove" ELSE "mouseup")

\* C16: the device class of a session is that of its start event and never
\* changes; a mouse session is subscribed only under mousemove and mouseup, a
\* touch session only under touchmove and touchend; teardown removes what was
\* subscribed, so no listener of the session stays on the list; and an event
\* of the other device class invokes no listener and no handler of the session.
C16_DeviceClassFixed ==
    [][/\ \A sid \in Sids : sess'[sid].isTouchEvent = sess[sid].isTouchEvent
       /\ Len(sess') > Len(sess) =>
             sess'[Len(sess')].isTouchEvent = (last'.e.type = "touchstart")
       /\ \A i \in DOMAIN registry' :
             registry'[i].type =
                 NameFor(sess'[registry'[i].sid].isTouchEvent, registry'[i].fn)
       /\ \A sid \in Sids :
             /\ ((\E fn \in Both : <<sid, fn>> \in last'.heard)
                    \/ CallsOf(last'.calls, sid) # <<>>)
                   => last'.e.isTouch = sess[sid].isTouchEvent
             /\ <<sid, "onPointerUp">> \in last'.heard =>
                   \A i \in DOMAIN registry' : registry'[i].sid # sid]_vars

\* C16's case: a mouse event dispatched while a touch session is subscribed
C16_Witness ==
    \E sid \in Sids :
        /\ sess[sid].isTouchEvent
        /\ SubsOf(registry, sid) = Both
        /\ last.e.type \in {"mousemove", "mouseup"}

\* C17: sessions started one after the other with no up event between them
\* are independent: a start leaves the listeners and the token of the sessions
\* before it alone; one mouseup invokes the up handler of every subscribed
\* mouse session exactly once, with the sample of the event, and leaves no
\* listener on the list; a mousemove is delivered once to every subscribed
\* session whose own token is not armed, and to no session whose token is.
C17_IndependentSessions ==
    [][\A sid \in Sids :
          /\ Len(sess') > Len(sess) =>
                (SubsOf(registry', sid) = SubsOf(registry, sid) /\ sess'[sid] = sess[sid])
          /\ last'.e.type = "mouseup" => registry' = <<>>
          /\ (SubsOf(registry, sid) = Both /\ last'.e.type = "mouseup") =>
                LET ups == KindOf(last'.calls, sid, "up")
                IN  Len(ups) = 1 /\ Sample(ups[1]) = <<last'.e.clientX, last'.e.clientY>>
          /\ (SubsOf(registry, sid) = Both /\ last'.e.type = "mousemove") =>
                LET moves == KindOf(last'.calls, sid, "move")
                IN  IF sess[sid].frameId = Null
                    THEN Len(moves) = 1 /\ Sample(moves[1]) = <<last'.e.clientX, last'.e.clientY>>
                    ELSE moves = <<>>]_vars

\* C17's case: two mouse sessions open together, one mousemove delivered to
\* both, then one mouseup that invoked the up handler of both
C17_Witness ==
    /\ Len(sess) >= 2
    /\ last.e.type = "mouseup"
    /\ registry = <<>>
    /\ \A sid \in {1, 2} : Len(KindOf(last.calls, sid, "up")) = 1
    /\ \E i \in DOMAIN Before :
          /\ i < Len(Before)
          /\ Before[i].kind = "move" /\ Before[i + 1].kind = "move"
          /\ Before[i].sid # Before[i + 1].sid
          /\ Before[i].frame = Before[i + 1].frame

\* the move listener of touch session sid heard, in the step l describes, a
\* touch-move with no touch point of the session's id
StrangerMove(l, sid) ==
    /\ l.e.type = "touchmove"
    /\ Stranger(sess[sid], l.e)
    /\ <<sid, "onPointerMove">> \in l.heard

\* C18: a touch-move without a touch point of the session's id does not arm
\* the throttle token of the session; when no move was delivered in the frame
\* before it, a touch-move of the session's own id that comes next in the same
\* frame is delivered to the move handler, once, with the sample of that id.
C18_StrangerMoveLeavesSlot ==
    [][\A sid \in Sids :
          /\ StrangerMove(last', sid) => sess'[sid].frameId = sess[sid].frameId
          /\ ( /\ StrangerMove(last, sid)
               /\ MovesIn(log, sid, frame) = <<>>
               /\ frame' = frame
               /\ last'.e.type = "touchmove"
               /\ Qualifies(sess[sid], last'.e)
               /\ <<sid, "onPointerMove">> \in last'.heard )
                => LET moves == KindOf(last'.calls, sid, "move")
                   IN  Len(moves) = 1 /\ Sample(moves[1]) = SampleOf(sess[sid], last'.e)]_vars

\* C18's case: a touch session has just heard a touch-move of another id in a
\* frame in which no move was delivered yet, and a touch-move that reaches
\* its move handler can follow
C18_Witness ==
    \E sid \in Sids :
        /\ StrangerMove(last, sid)
        /\ MovesIn(log, sid, frame) = <<>>
        /\ sess[sid].frameId = Null
        /\ ENABLED (TouchMove(Xs, MaxCalls) /\ KindOf(last'.calls, sid, "move") # <<>>)

====
